---- MODULE Spec2Model ----
(***************************************************************************)
(* server/password.py: one module-level binding ADMIN_PASSWORD, the        *)
(* accessor get_admin_password() that reads it, and the direct-execution   *)
(* branch that prints it.                                                  *)
(*                                                                         *)
(* The model follows one interpreter process.  The module body runs        *)
(* statement by statement (pc), writing the module's global namespace      *)
(* (globals).  Callers are threads of the same process; each call is the   *)
(* three steps the interpreter takes for the function: enter the frame,    *)
(* look the global name up, return the value on the stack.  A caller can   *)
(* start a call as soon as the name get_admin_password is bound.           *)
(***************************************************************************)
EXTENDS Naturals, Sequences, FiniteSets, TLC

\* Number of caller threads in the process.
NumCallers == 2

\* Number of calls each caller makes at most.
MaxCalls == 2

Callers == 1..NumCallers

\* Values __name__ can have: "__main__" on direct execution, the import name
\* otherwise (the file is server/password.py).
ModuleNames == {"__main__", "password", "server.password"}

VARIABLES
    globals,      \* the module's global namespace: name -> value
    pc,           \* the statement of the module body that runs next
    stdout,       \* the lines written to standard output so far
    exit_status,  \* <<>> while the process runs, <<status>> once it has exited
    cpc,          \* cpc[t]: where caller t is in get_admin_password
    stack,        \* stack[t]: the value on top of caller t's frame stack
    returned      \* returned[t]: the values caller t's calls returned, in order

vars == <<globals, pc, stdout, exit_status, cpc, stack, returned>>

----------------------------------------------------------------------------
\* Python values.

PyStr(s) == [type |-> "str", val |-> s]

PyNone == [type |-> "NoneType", val |-> "None"]

PyFunction(name) == [type |-> "function", val |-> name]

PyNameError(name) == [type |-> "NameError", val |-> name]

\* str(v), as print applies it to each argument.
Str(v) == v.val

\* STORE_NAME at module level: bind (or rebind) name n in namespace g.
StoreName(g, n, v) == (n :> v) @@ g

\* Mutant: the literal is left empty.
EmptyLiteral == ""

\* The string literal of line 8.
AdminPasswordLiteral == "unicode2024!"

\* The label literal of line 15.
Label == "Current admin password:"

\* print(a, b): the arguments' str(), joined by the separator " ", as one line.
print(a, b) == Str(a) \o " " \o Str(b)

\* The lookup of the name ADMIN_PASSWORD (lines 12 and 15) finds a binding.
Bound == "ADMIN_PASSWORD" \in DOMAIN globals

\* The test of line 14.
IsMain == globals["__name__"] = PyStr("__main__")

----------------------------------------------------------------------------
Init ==
    /\ globals \in {("__name__" :> PyStr(n)) : n \in ModuleNames}
    /\ pc = "line8"
    /\ stdout = <<>>
    /\ exit_status = <<>>
    /\ cpc = [t \in Callers |-> "idle"]
    /\ stack = [t \in Callers |-> PyNone]
    /\ returned = [t \in Callers |-> <<>>]

----------------------------------------------------------------------------
\* The module body.

\* Mutant: the assignment binds nothing.
Line8Skip ==
    /\ pc = "line8"
    /\ pc' = "line10"
    /\ UNCHANGED <<globals, stdout, exit_status, cpc, stack, returned>>

\* ADMIN_PASSWORD = "unicode2024!"
Line8 ==
    /\ pc = "line8"
    /\ globals' = StoreName(globals, "ADMIN_PASSWORD", PyStr(AdminPasswordLiteral))
    /\ pc' = "line10"
    /\ UNCHANGED <<stdout, exit_status, cpc, stack, returned>>

\* Mutant: the function is defined under the name of the constant.
Line10Shadow ==
    /\ pc = "line10"
    /\ globals' = StoreName(StoreName(globals, "get_admin_password",
                                      PyFunction("get_admin_password")),
                            "ADMIN_PASSWORD", PyFunction("get_admin_password"))
    /\ pc' = "line14"
    /\ UNCHANGED <<stdout, exit_status, cpc, stack, returned>>

\* def get_admin_password(): ...
Line10 ==
    /\ pc = "line10"
    /\ globals' = StoreName(globals, "get_admin_password",
                            PyFunction("get_admin_password"))
    /\ pc' = "line14"
    /\ UNCHANGED <<stdout, exit_status, cpc, stack, returned>>

\* Mutant: the branch is taken whatever __name__ is.
Line14Always ==
    /\ pc = "line14"
    /\ pc' = "line15"
    /\ UNCHANGED <<globals, stdout, exit_status, cpc, stack, returned>>

\* if __name__ == "__main__":
Line14 ==
    /\ pc = "line14"
    /\ pc' = IF IsMain THEN "line15" ELSE "end"
    /\ UNCHANGED <<globals, stdout, exit_status, cpc, stack, returned>>

\* Mutant: label and value go out in two print calls.
Line15TwoLines ==
    /\ pc = "line15"
    /\ stdout' = stdout \o <<Label, Str(globals["ADMIN_PASSWORD"])>>
    /\ pc' = "end"
    /\ UNCHANGED <<globals, exit_status, cpc, stack, returned>>

\* Mutant: the value is left out of the print call.
Line15LabelOnly ==
    /\ pc = "line15"
    /\ stdout' = Append(stdout, Label)
    /\ pc' = "end"
    /\ UNCHANGED <<globals, exit_status, cpc, stack, returned>>

\* print("Current admin password:", ADMIN_PASSWORD); an unbound name raises
\* NameError, which nothing catches: the process ends with status 1.
Line15 ==
    /\ pc = "line15"
    /\ IF Bound
       THEN /\ stdout' = Append(stdout, print(PyStr(Label), globals["ADMIN_PASSWORD"]))
            /\ pc' = "end"
            /\ UNCHANGED exit_status
       ELSE /\ pc' = "exited"
            /\ exit_status' = <<1>>
            /\ UNCHANGED stdout
    /\ UNCHANGED <<globals, cpc, stack, returned>>

\* The script has run to its end: on direct execution the interpreter exits
\* with status 0 once no call is in progress.
Exit ==
    /\ pc = "end"
    /\ IsMain
    /\ \A t \in Callers : cpc[t] = "idle"
    /\ exit_status' = <<0>>
    /\ pc' = "exited"
    /\ UNCHANGED <<globals, stdout, cpc, stack, returned>>

----------------------------------------------------------------------------
\* get_admin_password(), one caller's call.

\* A caller looks get_admin_password up and enters its frame.
Call(t) ==
    /\ pc # "exited"
    /\ "get_admin_password" \in DOMAIN globals
    /\ globals["get_admin_password"] = PyFunction("get_admin_password")
    /\ cpc[t] = "idle"
    /\ Len(returned[t]) < MaxCalls
    /\ cpc' = [cpc EXCEPT ![t] = "frame"]
    /\ stack' = [stack EXCEPT ![t] = PyNone]
    /\ UNCHANGED <<globals, pc, stdout, exit_status, returned>>

\* Mutant: the read clears the credential.
LoadGlobalConsume(t) ==
    /\ cpc[t] = "frame"
    /\ "ADMIN_PASSWORD" \in DOMAIN globals
    /\ stack' = [stack EXCEPT ![t] = globals["ADMIN_PASSWORD"]]
    /\ cpc' = [cpc EXCEPT ![t] = "loaded"]
    /\ globals' = StoreName(globals, "ADMIN_PASSWORD", PyStr(EmptyLiteral))
    /\ UNCHANGED <<pc, stdout, exit_status, returned>>

\* Mutant: the read hands out the credential and rebinds it to a new one.
LoadGlobalRotate(t) ==
    /\ cpc[t] = "frame"
    /\ "ADMIN_PASSWORD" \in DOMAIN globals
    /\ stack' = [stack EXCEPT ![t] = globals["ADMIN_PASSWORD"]]
    /\ cpc' = [cpc EXCEPT ![t] = "loaded"]
    /\ globals' = StoreName(globals, "ADMIN_PASSWORD",
                            PyStr(Str(globals["ADMIN_PASSWORD"]) \o "!"))
    /\ UNCHANGED <<pc, stdout, exit_status, returned>>

\* return ADMIN_PASSWORD, first half: the name is looked up in the module's
\* globals when the call runs; an unbound name raises NameError.
LoadGlobal(t) ==
    /\ cpc[t] = "frame"
    /\ IF Bound
       THEN /\ stack' = [stack EXCEPT ![t] = globals["ADMIN_PASSWORD"]]
            /\ cpc' = [cpc EXCEPT ![t] = "loaded"]
       ELSE /\ stack' = [stack EXCEPT ![t] = PyNameError("ADMIN_PASSWORD")]
            /\ cpc' = [cpc EXCEPT ![t] = "raised"]
    /\ UNCHANGED <<globals, pc, stdout, exit_status, returned>>

\* Mutant: the function body ends without the return statement.
ReturnValueNone(t) ==
    /\ cpc[t] = "loaded"
    /\ returned' = [returned EXCEPT ![t] = Append(@, PyNone)]
    /\ cpc' = [cpc EXCEPT ![t] = "idle"]
    /\ UNCHANGED <<globals, pc, stdout, exit_status, stack>>

\* Mutant: the accessor logs the value before it returns it.
ReturnValuePrints(t) ==
    /\ cpc[t] = "loaded"
    /\ returned' = [returned EXCEPT ![t] = Append(@, stack[t])]
    /\ cpc' = [cpc EXCEPT ![t] = "idle"]
    /\ stdout' = Append(stdout, Str(stack[t]))
    /\ UNCHANGED <<globals, pc, exit_status, stack>>

\* return ADMIN_PASSWORD, second half: the value on the stack goes to the caller.
ReturnValue(t) ==
    /\ cpc[t] = "loaded"
    /\ returned' = [returned EXCEPT ![t] = Append(@, stack[t])]
    /\ cpc' = [cpc EXCEPT ![t] = "idle"]
    /\ UNCHANGED <<globals, pc, stdout, exit_status, stack>>

----------------------------------------------------------------------------
Next ==
    \/ Line8
    \/ Line10
    \/ Line14
    \/ Line15
    \/ Exit
    \/ \E t \in Callers : Call(t)
    \/ \E t \in Callers : LoadGlobal(t)
    \/ \E t \in Callers : ReturnValue(t)

Spec == Init /\ [][Next]_vars

\* The main thread runs the module body to its end and a call that has been
\* entered runs to its return: neither waits for anything.
FairSpec ==
    /\ Spec
    /\ WF_vars(Line8)
    /\ WF_vars(Line10)
    /\ WF_vars(Line14)
    /\ WF_vars(Line15)
    /\ SF_vars(Exit)
    /\ \A t \in Callers : WF_vars(LoadGlobal(t))
    /\ \A t \in Callers : WF_vars(ReturnValue(t))

----------------------------------------------------------------------------
\* Some call has returned.
SomeCallReturned == \E t \in Callers : Len(returned[t]) >= 1

\* C1: every value get_admin_password() has returned is the string
\* "unicode2024!", the value line 8 gives ADMIN_PASSWORD; it is never None.
C1_ReturnsConfiguredString ==
    \A t \in Callers : \A i \in DOMAIN returned[t] :
        /\ returned[t][i] = [type |-> "str", val |-> "unicode2024!"]
        /\ returned[t][i] # PyNone
        /\ Bound /\ returned[t][i] = globals["ADMIN_PASSWORD"]

C1_Witness ==
    \E t \in Callers : Len(returned[t]) = MaxCalls

\* C2: once ADMIN_PASSWORD is bound it holds the literal of line 8, and no
\* step of the module body, of a call or of the print path rebinds it to
\* another value or unbinds it.
C2_NeverMutated ==
    /\ [](Bound => globals["ADMIN_PASSWORD"] = PyStr(AdminPasswordLiteral))
    /\ [][Bound => (Bound' /\ globals'["ADMIN_PASSWORD"] = globals["ADMIN_PASSWORD"])]_vars

C2_Witness ==
    /\ Bound
    /\ pc = "exited"
    /\ stdout # <<>>
    /\ \A t \in Callers : Len(returned[t]) = MaxCalls

\* C3: a step of a call of get_admin_password() (entering the frame, the
\* lookup, the return) leaves the module's globals, the module body's
\* position and the exit status unchanged and writes nothing to stdout.
C3_PureRead ==
    [][(cpc' # cpc) => UNCHANGED <<globals, stdout, pc, exit_status>>]_vars

C3_Witness ==
    /\ SomeCallReturned
    /\ \E t \in Callers : cpc[t] = "loaded"

\* C4: two calls one caller makes one after the other return the same value,
\* and any two calls made in the process, by whichever callers, return equal
\* values.
C4_Idempotent ==
    /\ \A t \in Callers : \A i \in DOMAIN returned[t] :
           i + 1 \in DOMAIN returned[t] => returned[t][i] = returned[t][i + 1]
    /\ \A t, u \in Callers : \A i \in DOMAIN returned[t] : \A j \in DOMAIN returned[u] :
           returned[t][i] = returned[u][j]

C4_Witness ==
    /\ \E t \in Callers : Len(returned[t]) >= 2
    /\ \A t \in Callers : Len(returned[t]) >= 1

\* C5: whatever the interleaving of the callers' steps, every caller receives
\* the same value: the values already returned and the values calls in
\* progress hold agree across all callers.
Received(t) ==
    {returned[t][i] : i \in DOMAIN returned[t]}
        \cup (IF cpc[t] = "loaded" THEN {stack[t]} ELSE {})

C5_ConcurrentCallersAgree ==
    \A t, u \in Callers : \A v \in Received(t) : \A w \in Received(u) : v = w

\* Two calls overlap (both are past the lookup, neither has returned) while a
\* third value has already been returned.
C5_Witness ==
    \E t, u \in Callers :
        /\ t # u
        /\ cpc[t] = "loaded"
        /\ cpc[u] = "loaded"
        /\ Len(returned[t]) >= 1

\* C6: on direct execution the process ends up exited with status 0, having
\* written exactly one line to stdout: the label, then the credential value.
C6_DirectExecution ==
    IsMain ~> (/\ pc = "exited"
               /\ exit_status = <<0>>
               /\ stdout = <<"Current admin password: unicode2024!">>)

C6_Witness ==
    /\ IsMain
    /\ pc = "exited"
    /\ Len(stdout) = 1

\* C7: a call never ends in an error: no caller is ever left with a raised
\* exception, and every call that has been entered returns a value.
C7_AlwaysSucceeds ==
    /\ [](\A t \in Callers : cpc[t] # "raised" /\ stack[t].type # "NameError")
    /\ \A t \in Callers : \A n \in 0..MaxCalls :
           (cpc[t] = "frame" /\ Len(returned[t]) = n)
               ~> (cpc[t] = "idle" /\ Len(returned[t]) = n + 1)

\* A call entered while the module body is still running has returned.
C7_Witness ==
    /\ pc = "line14"
    /\ SomeCallReturned

\* C8: the credential is never the empty string: ADMIN_PASSWORD, once bound,
\* and every value returned have a length greater than zero.
C8_NeverEmpty ==
    /\ Bound => Len(Str(globals["ADMIN_PASSWORD"])) > 0
    /\ \A t \in Callers : \A i \in DOMAIN returned[t] :
           Len(Str(returned[t][i])) > 0

C8_Witness ==
    /\ Bound
    /\ SomeCallReturned
    /\ \E t \in Callers : Len(returned[t]) = 0

\* C9: when the module is imported (__name__ is not "__main__"), nothing is
\* ever written to stdout, whatever calls are made.
C9_NoOutputOnImport ==
    ~IsMain => stdout = <<>>

C9_Witness ==
    /\ ~IsMain
    /\ pc = "end"
    /\ \A t \in Callers : Len(returned[t]) >= 1

\* C10: what direct execution prints after the label is the value the
\* accessor returns in the same process: every line on stdout is the label,
\* the separator and a value equal to each value returned by a call, and to
\* the value a call would read now.
C10_PrintAgreesWithAccessor ==
    \A k \in DOMAIN stdout :
        /\ Bound /\ stdout[k] = Label \o " " \o Str(globals["ADMIN_PASSWORD"])
        /\ \A t \in Callers : \A i \in DOMAIN returned[t] :
               stdout[k] = Label \o " " \o Str(returned[t][i])

\* The value was printed, one call returned before the print and one after.
C10_Witness ==
    /\ stdout # <<>>
    /\ \E t \in Callers : cpc[t] = "loaded" /\ Len(returned[t]) >= 1

====
